---- MODULE Spec2Model ----
(***************************************************************************)
(* Robust (Toeplitz) KronPCA, src/cca/kron_pca.py: the Pitsianis-VanLoan   *)
(* layout transform and its memoized permutation, the Toeplitz projector,  *)
(* the proximal-gradient solver, the cross-validation driver and the grid  *)
(* search.                                                                 *)
(*                                                                         *)
(* Arrays are functions over 0..n-1, as numpy indexes them.  A 2-D array   *)
(* is a record [rows, cols, data] whose data is its row-major ravel(), so  *)
(* that ravel() and reshape() leave data alone and change only the shape.  *)
(***************************************************************************)
EXTENDS Integers, Sequences, FiniteSets, TLC

VARIABLES
    cache,      \* memoized.cache of pv_permutation: (ps, pt) -> (perm, perm_inv)
    nComputed,  \* how many times pv_permutation's body ran, per key
    layout,     \* the layout transform's caller: C, ps, pt, the results
    proj,       \* the last call of build_P: pt and what it returned
    solver,     \* prox_grad_robust_toeplitz_kron_pca: arguments, locals, position
    cv,         \* cross_validate_toeplitz_fit: arguments, locals, position
    grid,       \* regularize_cov: arguments, locals, position
    kron        \* prox_grad_robust_kron_pca: arguments, locals, position

vars == <<cache, nComputed, layout, proj, solver, cv, grid, kron>>

\* ------------------------------------------------------------------ bounds

\* The layout transform is called with ps*pt <= MaxDim, with at most MaxKeys
\* distinct (ps, pt) pairs in one run, on matrices C[r, c] = a*n*r + c with
\* a <= MaxCoef; build_P is called with pt <= MaxProjPt and applied to
\* matrices of at most MaxProjPs columns.
MaxDim == 4
MaxKeys == 2
MaxCoef == 1
MaxProjPt == 4
MaxProjPs == 2

\* The solver is called with ps*pt <= MaxSolverDim, on matrices with entries
\* in 0 .. MaxEntry (plus a spike of the same size), lambda_L and lambda_S in
\* 0 .. MaxLambda, max_iter <= MaxIter and stop_cond_interval <= MaxInterval.
MaxSolverDim == 2
MaxEntry == 1
MaxLambda == 1
MaxIter == 3
MaxInterval == 2

\* The unconstrained solver is called with ps*pt <= MaxKronDim and
\* num_iter <= MaxKronIter.
MaxKronDim == 4
MaxKronIter == 2

\* The loop of the solver is also run with max_iter <= MaxLoopIter and
\* stop_cond_interval <= MaxLoopInterval.
MaxLoopIter == 5
MaxLoopInterval == 3

\* The solver is also called with ps*pt <= MaxAliasDim on matrices with one
\* entry, or two symmetric ones, in 1 .. MaxAliasEntry.
MaxAliasDim == 4
MaxAliasEntry == 2

\* The drivers are called with 1 .. MaxRows rows of one column with entries
\* in 0 .. MaxX, num_folds <= MaxFolds, max_iter in 1 .. MaxDriverIter, and
\* the grid search with at most MaxGrid values per axis on MaxGridRows rows.
MaxRows == 4
MaxX == 1
MaxFolds == 3
MaxDriverIter == 2
MaxGrid == 2
MaxGridRows == 3

\* ------------------------------------------------------------------ arrays

Idx(n) == 0 .. (n - 1)

Mat(r, c, d) == [rows |-> r, cols |-> c, data |-> d]

At(M, r, c) == M.data[r * M.cols + c]

Size(M) == M.rows * M.cols

\* ---------------------------------------------------------------- numbers

\* A float is modelled by the rational it stands for, <<num, den>> in lowest
\* terms with den > 0: the arithmetic is exact.
RECURSIVE Gcd(_, _)
Gcd(a, b) == IF b = 0 THEN a ELSE Gcd(b, a % b)

Abs(x) == IF x < 0 THEN -x ELSE x

Q(n, d) ==
    LET g == Gcd(Abs(n), Abs(d))
        sg == IF d < 0 THEN -1 ELSE 1
    IN  <<sg * (n \div g), sg * (d \div g)>>

Zero == <<0, 1>>
One == <<1, 1>>
QInt(n) == <<n, 1>>

QAdd(x, y) == Q(x[1] * y[2] + y[1] * x[2], x[2] * y[2])
QNeg(x) == <<-x[1], x[2]>>
QSub(x, y) == QAdd(x, QNeg(y))
QMul(x, y) == Q(x[1] * y[1], x[2] * y[2])
QDiv(x, y) == Q(x[1] * y[2], x[2] * y[1])
QLess(x, y) == x[1] * y[2] < y[1] * x[2]
QAbs(x) == <<Abs(x[1]), x[2]>>
QSign(x) == IF x[1] > 0 THEN One ELSE IF x[1] < 0 THEN QNeg(One) ELSE Zero
QMax(x, y) == IF QLess(x, y) THEN y ELSE x

\* The sum of f[p] over the finite set S of indices.
RECURSIVE QSum(_, _)
QSum(f, S) ==
    IF S = {} THEN Zero
    ELSE LET p == CHOOSE p \in S : TRUE
         IN  QAdd(f[p], QSum(f, S \ {p}))

RECURSIVE ISum(_, _)
ISum(f, S) ==
    IF S = {} THEN 0
    ELSE LET p == CHOOSE p \in S : TRUE
         IN  f[p] + ISum(f, S \ {p})

\* a.argsort() of a 1-D integer array of length n (stable: equal values keep
\* their order): out[r] is the position of the element of rank r.
Argsort(a, n) ==
    LET rank == [p \in Idx(n) |->
                   Cardinality({q \in Idx(n) :
                                  a[q] < a[p] \/ (a[q] = a[p] /\ q < p)})]
    IN  [r \in Idx(n) |-> CHOOSE p \in Idx(n) : rank[p] = r]

\* --------------------------------------------------------- layout transform

\* A variant without the transpose: I_block.reshape((ps**2,)).
BlockVecRowMajor(ps, pt, i, j, x) ==
    (i * ps + (x \div ps)) * (ps * pt) + (j * ps + (x % ps))

\* I_block.T.reshape((ps**2,)) at flat position x: the block's transpose read
\* row-major, that is I_block[x % ps, x \div ps] of the block at (i, j).
BlockVec(ps, pt, i, j, x) ==
    (i * ps + (x % ps)) * (ps * pt) + (j * ps + (x \div ps))

\* I_perm.ravel(): row i*pt + j of I_perm is the vectorized block (i, j) of
\* I = arange(ps^2 pt^2).reshape((ps*pt, ps*pt)).
PermOf(ps, pt) ==
    [p \in Idx(ps * ps * pt * pt) |->
        LET row_idx == p \div (ps * ps)
        IN  BlockVec(ps, pt, row_idx \div pt, row_idx % pt, p % (ps * ps))]

\* A variant that takes perm for its own inverse.
PermInvSame(perm, n) == perm

\* perm.argsort().
PermInvOf(perm, n) == Argsort(perm, n)

\* The body of pv_permutation: (perm, perm_inv).
pv_permutation_body(ps, pt) ==
    LET perm == PermOf(ps, pt)
    IN  <<perm, PermInvOf(perm, ps * ps * pt * pt)>>

\* A variant that keeps only the entry of the last key computed:
\* self.cache = {args: value}.
CacheKeepsLast(c, ps, pt) ==
    IF <<ps, pt>> \in DOMAIN c
    THEN c
    ELSE [key \in {<<ps, pt>>} |-> pv_permutation_body(ps, pt)]

\* memoized.__call__: the cache after a call with key (ps, pt): a key in the
\* cache leaves it alone (lines 31-32), another one is computed and stored
\* (lines 34-35).
CacheAfter(c, ps, pt) ==
    IF <<ps, pt>> \in DOMAIN c
    THEN c
    ELSE [key \in DOMAIN c \cup {<<ps, pt>>} |->
            IF key = <<ps, pt>> THEN pv_permutation_body(ps, pt) ELSE c[key]]

\* The count n of executions of the wrapped function, per key, after a call
\* with key (ps, pt) that found the cache c: self.func runs at line 34, when
\* the key is not in the cache.
CountAfter(c, n, ps, pt) ==
    IF <<ps, pt>> \in DOMAIN c
    THEN n
    ELSE [key \in DOMAIN n \cup {<<ps, pt>>} |->
            IF key # <<ps, pt>> THEN n[key]
            ELSE IF key \in DOMAIN n THEN n[key] + 1 ELSE 1]

\* What pv_permutation(ps, pt) returns when the cache is c.
pv_permutation(c, ps, pt) == CacheAfter(c, ps, pt)[<<ps, pt>>]

\* C.ravel()[index].reshape((r, c)): numpy raises IndexError when an index is
\* out of bounds for the raveled array; otherwise the result has the shape
\* asked for, whatever shape C had.
Take(C, index, n, r, c) ==
    IF \E p \in Idx(n) : index[p] >= Size(C)
    THEN [outcome |-> "IndexError"]
    ELSE [outcome |-> "ok",
          value |-> Mat(r, c, [p \in Idx(n) |-> C.data[index[p]]])]

pv_rearrange(c, C, ps, pt) ==
    Take(C, pv_permutation(c, ps, pt)[1], ps * ps * pt * pt, pt * pt, ps * ps)

pv_rearrange_inv(c, C, ps, pt) ==
    Take(C, pv_permutation(c, ps, pt)[2], ps * ps * pt * pt, ps * pt, ps * pt)

\* ------------------------------------------------------- Toeplitz projector

\* A variant without the transpose: idx[r, c] = r*pt + c + 1.
DiagIdxNoTranspose(pt, offset) ==
    {r * pt + (r + offset) + 1 : r \in {r \in Idx(pt) : r + offset \in Idx(pt)}}

\* np.diagonal(idx, offset) of idx = arange(pt^2).reshape((pt, pt)).T + 1,
\* so idx[r, c] = c*pt + r + 1: the entries idx[r, r + offset].
DiagIdx(pt, offset) ==
    {(r + offset) * pt + r + 1 : r \in {r \in Idx(pt) : r + offset \in Idx(pt)}}

\* build_P(pt).  An entry w > 0 of the matrix stands for the real number
\* 1/sqrt(w) and 0 for 0: the code writes 1/np.sqrt(pt - |offset|), whose
\* square is the rational 1/w.
build_P(pt) ==
    Mat(2 * pt - 1, pt * pt,
        [p \in Idx((2 * pt - 1) * pt * pt) |->
            LET offset == (p \div (pt * pt)) - pt + 1
            IN  IF (p % (pt * pt)) + 1 \in DiagIdx(pt, offset)
                THEN pt - Abs(offset)
                ELSE 0])

\* np.zeros((2*pt - 1, pt**2)) raises ValueError for a negative dimension.
build_P_call(pt) ==
    IF 2 * pt - 1 < 0
    THEN [outcome |-> "ValueError"]
    ELSE [outcome |-> "ok", value |-> build_P(pt)]

\* ------------------------------------------------------ proximal operators

MAdd(A, B) ==
    Mat(A.rows, A.cols, [p \in Idx(Size(A)) |-> QAdd(A.data[p], B.data[p])])
MSub(A, B) ==
    Mat(A.rows, A.cols, [p \in Idx(Size(A)) |-> QSub(A.data[p], B.data[p])])
MScale(t, A) == Mat(A.rows, A.cols, [p \in Idx(Size(A)) |-> QMul(t, A.data[p])])
Zeros(r, c) == Mat(r, c, [p \in Idx(r * c) |-> Zero])
Row(A, r) == [c \in Idx(A.cols) |-> At(A, r, c)]
NonzeroAt(A) == {p \in Idx(Size(A)) : A.data[p] # Zero}

\* np.sign(x)*np.maximum(np.abs(x) - lambda_param, 0), entry by entry.
SoftEntry(x, lambda_param) ==
    QMul(QSign(x), QMax(QSub(QAbs(x), lambda_param), Zero))

soft_entrywise_threshold(M, lambda_param) ==
    Mat(M.rows, M.cols,
        [p \in Idx(Size(M)) |-> SoftEntry(M.data[p], lambda_param)])

\* A variant with np.minimum for np.maximum: min(s - lambda_param, 0).
SoftSvMinimum(M, lambda_param) ==
    Mat(M.rows, M.cols,
        [p \in Idx(Size(M)) |->
            LET x == QSub(QAbs(M.data[p]), lambda_param)
            IN  QMul(QSign(M.data[p]), IF QLess(x, Zero) THEN x ELSE Zero)])

\* U diag(max(s - lambda_param, 0)) Vh of the SVD M = U diag(s) Vh, on the
\* matrices whose SVD is rational: with lambda_param = 0 the product is M; a
\* matrix with at most one nonzero entry x has the one singular value |x|,
\* and the product is sign(x) max(|x| - lambda_param, 0) at x's place
\* (lambda_param >= 0), and so has a matrix with at most one nonzero entry
\* in each row and in each column, whose singular values are the absolute
\* values of its entries.  SvdExact and SvdSpread are the guards of the
\* callers.
soft_sv_threshold(M, lambda_param) ==
    IF lambda_param = Zero
    THEN M
    ELSE Mat(M.rows, M.cols,
             [p \in Idx(Size(M)) |-> SoftEntry(M.data[p], lambda_param)])

\* ------------------------------------------------------------------ solver

(***************************************************************************)
(* The (2*pt-1)-row matrices of the solver (R_tilde, L_tilde, S_tilde,     *)
(* M_tilde) hold irrational numbers: row r of np.dot(P, R) is the sum of   *)
(* the rows of R on the diagonal of offset r-pt+1 times 1/sqrt(w), w =     *)
(* pt - |offset|.  Row r of such a matrix is stored as the rationals q     *)
(* with the factor 1/sqrt(w) left out.  Every step of the loop keeps the   *)
(* form: sums and multiples by tau act on q; the threshold of row r is     *)
(* tau*lambda_S*cj with cj = 1/sqrt(w), and sign(x) max(|x| - t cj, 0) of   *)
(* x = q cj is sign(q) max(|q| - t, 0) cj; np.dot(P.T, X) multiplies row r   *)
(* by 1/sqrt(w) once more, which gives the rational q/w.                   *)
(***************************************************************************)

\* The weight of row r of P: the w of its nonzero entries.
RowWeight(P, r) ==
    LET nz == {m \in Idx(P.cols) : At(P, r, m) # 0}
    IN  IF nz = {} THEN 1 ELSE At(P, r, CHOOSE m \in nz : TRUE)

\* np.dot(P, R), rows stored without their factor 1/sqrt(RowWeight).
DotP(P, R) ==
    Mat(P.rows, R.cols,
        [p \in Idx(P.rows * R.cols) |->
            LET r == p \div R.cols
                c == p % R.cols
                nz == {m \in Idx(P.cols) : At(P, r, m) # 0}
            IN  QSum([m \in nz |-> At(R, m, c)], nz)])

\* np.dot(P.T, X) of a matrix X stored that way: rational entries.
DotPT(P, X) ==
    Mat(P.cols, X.cols,
        [p \in Idx(P.cols * X.cols) |->
            LET m == p \div X.cols
                c == p % X.cols
                nz == {r \in Idx(P.rows) : At(P, r, m) # 0}
            IN  QSum([r \in nz |-> QDiv(At(X, r, c), QInt(At(P, r, m)))], nz)])

\* The SVD steps of a run are rational: lambda_L = 0, or R_tilde has at most
\* one nonzero entry, in a row of weight 1 (every iterate then has its
\* nonzero entries among those of R_tilde).
SvdExact(P, R_tilde, lambda_L) ==
    \/ lambda_L = Zero
    \/ /\ Cardinality(NonzeroAt(R_tilde)) <= 1
       /\ \A p \in NonzeroAt(R_tilde) : RowWeight(P, p \div R_tilde.cols) = 1

\* The SVD steps of a run are rational also when the nonzero entries of
\* R_tilde are in rows of weight 1, no two of them in one row or in one
\* column (every iterate then has its nonzero entries among those).
SvdSpread(P, R_tilde) ==
    /\ \A p \in NonzeroAt(R_tilde) : RowWeight(P, p \div R_tilde.cols) = 1
    /\ \A p, q \in NonzeroAt(R_tilde) :
          p # q => /\ p \div R_tilde.cols # q \div R_tilde.cols
                   /\ p % R_tilde.cols # q % R_tilde.cols

\* np.sqrt(np.mean((A - B)**2)) < tol.
RmsLess(A, B, tol) ==
    LET sq == [p \in Idx(Size(A)) |->
                  QMul(QSub(A.data[p], B.data[p]), QSub(A.data[p], B.data[p]))]
        mean == QDiv(QSum(sq, Idx(Size(A))), QInt(Size(A)))
    IN  QLess(Zero, tol) /\ QLess(mean, QMul(tol, tol))

\* np.linalg.matrix_rank, for the matrices with a row or a column count of at
\* most 2: 0 for the zero matrix, 1 when every 2x2 minor vanishes.
MatrixRank(A) ==
    IF NonzeroAt(A) = {} THEN 0
    ELSE IF \A r1, r2 \in Idx(A.rows), c1, c2 \in Idx(A.cols) :
              QMul(At(A, r1, c1), At(A, r2, c2)) = QMul(At(A, r1, c2), At(A, r2, c1))
         THEN 1
         ELSE 2

\* np.sum(np.nonzero(S))/S.size: np.nonzero returns the row indices and the
\* column indices of the nonzero entries, and np.sum adds them all up.
SparsityOf(S) ==
    Q(ISum([p \in NonzeroAt(S) |-> (p \div S.cols) + (p % S.cols)], NonzeroAt(S)),
      Size(S))

\* The count of nonzero entries over the count of entries.
NonzeroFraction(S) == Q(Cardinality(NonzeroAt(S)), Size(S))

\* pv_rearrange_inv(np.dot(P.T, L_tilde + S_tilde), ps, pt).
Reconstruct(c, P, L_tilde, S_tilde, ps, pt) ==
    pv_rearrange_inv(c, DotPT(P, MAdd(L_tilde, S_tilde)), ps, pt)

NoResult == [outcome |-> "none"]
Unset == [outcome |-> "unset"]

\* Lines 283-291: P, R, R_tilde and the initial iterates.  arr holds the two
\* arrays S_tilde_prev and S_tilde are bound to: "B" is the np.zeros of line
\* 288, "A" the np.zeros of line 291, which the loop writes in place.
SolverStart(c, args) ==
    LET Pc == build_P_call(args.pt)
        Rc == pv_rearrange(c, args.sample_cov, args.ps, args.pt)
    IN  IF Pc.outcome # "ok"
        THEN [pc |-> "done", args |-> args, result |-> Pc]
        ELSE IF Rc.outcome # "ok"
        THEN [pc |-> "done", args |-> args, result |-> Rc]
        ELSE LET R_tilde == DotP(Pc.value, Rc.value)
             IN  [pc |-> IF args.max_iter > 0 THEN "loop" ELSE "after_loop",
                  args |-> args,
                  P |-> Pc.value,
                  R_tilde |-> R_tilde,
                  L_tilde_prev |-> R_tilde,
                  S_tilde_prev |-> "B",
                  M_tilde_prev |-> MAdd(R_tilde, Zeros(R_tilde.rows, R_tilde.cols)),
                  arr |-> [A |-> Zeros(R_tilde.rows, R_tilde.cols),
                           B |-> Zeros(R_tilde.rows, R_tilde.cols)],
                  L_tilde |-> Unset,
                  k |-> 0,
                  cov_est |-> Unset,
                  cov_est_prev |-> Unset,
                  result |-> NoResult]

\* Lines 296-298: for j in range(-pt+1, pt), row j+pt-1 of the array S is
\* overwritten with the thresholded row of M_tilde_prev - L_tilde_prev.
RECURSIVE RowLoop(_, _, _, _, _, _)
RowLoop(S, j, pt, M_tilde_prev, L_tilde_prev, t) ==
    IF j >= pt THEN S
    ELSE LET r == j + pt - 1
             S2 == Mat(S.rows, S.cols,
                       [p \in Idx(Size(S)) |->
                           IF p \div S.cols = r
                           THEN SoftEntry(QSub(M_tilde_prev.data[p],
                                               L_tilde_prev.data[p]), t)
                           ELSE S.data[p]])
         IN  RowLoop(S2, j + 1, pt, M_tilde_prev, L_tilde_prev, t)

\* A variant that runs the check at every iteration.
CheckAlways(k, stop_cond_interval) == TRUE

\* Whether the check of lines 303-309 runs at iteration k.
CheckAt(k, stop_cond_interval) == k % stop_cond_interval = 0

\* A variant in which line 295 reads the array S_tilde_prev is bound to
\* after the loop of lines 296-298 has written S_tilde into the array "A".
ReadAfterRowLoop(arr, ref, S_tilde) == IF ref = "A" THEN S_tilde ELSE arr[ref]

\* Line 295 reads the array S_tilde_prev is bound to before lines 296-298
\* write the rows of S_tilde: the array as the last iteration left it.
ReadSPrev(arr, ref, S_tilde) == arr[ref]

\* Lines 293-309: one iteration of the loop, at k.
IterBody(c, s) ==
    LET a == s.args
        S_tilde == RowLoop(s.arr.A, -a.pt + 1, a.pt, s.M_tilde_prev,
                           s.L_tilde_prev, QMul(a.tau, a.lambda_S))
        L_tilde == soft_sv_threshold(MSub(s.M_tilde_prev,
                                          ReadSPrev(s.arr, s.S_tilde_prev, S_tilde)),
                                     QMul(a.tau, a.lambda_L))
        LS == MAdd(L_tilde, S_tilde)
        M_tilde == MSub(LS, MScale(a.tau, MSub(LS, s.R_tilde)))
        check == CheckAt(s.k, a.stop_cond_interval)
        cov_est == IF check
                   THEN Reconstruct(c, s.P, L_tilde, S_tilde, a.ps, a.pt)
                   ELSE s.cov_est
        stop == /\ check
                /\ s.k > 0
                /\ RmsLess(cov_est.value, s.cov_est_prev.value, a.tol)
    IN  [s EXCEPT
            !.L_tilde = [outcome |-> "ok", value |-> L_tilde],
            !.arr = [s.arr EXCEPT !.A = S_tilde],
            !.M_tilde_prev = M_tilde,
            !.S_tilde_prev = "A",
            !.L_tilde_prev = L_tilde,
            !.cov_est = cov_est,
            !.cov_est_prev = IF check /\ ~stop THEN cov_est ELSE s.cov_est_prev,
            !.k = s.k + 1,
            !.pc = IF stop \/ s.k + 1 >= a.max_iter THEN "after_loop" ELSE "loop"]

\* Lines 311-314: the diagnostics and the return.  With max_iter = 0 the
\* loop never bound L_tilde, and line 311 raises UnboundLocalError.
SolverFinish(s) ==
    [s EXCEPT
        !.pc = "done",
        !.result =
            IF s.L_tilde.outcome # "ok"
            THEN [outcome |-> "UnboundLocalError"]
            ELSE [outcome |-> "ok",
                  cov_est |-> s.cov_est.value,
                  rank |-> MatrixRank(DotPT(s.P, s.L_tilde.value)),
                  sparsity |-> SparsityOf(s.arr.A)]]

RECURSIVE RunLoop(_, _)
RunLoop(c, s) == IF s.pc = "loop" THEN RunLoop(c, IterBody(c, s)) ELSE s

\* prox_grad_robust_toeplitz_kron_pca(...): what the call returns or raises.
prox_grad_robust_toeplitz_kron_pca(c, args) ==
    LET s == SolverStart(c, args)
    IN  IF s.pc = "done" THEN s.result
        ELSE SolverFinish(RunLoop(c, s)).result

\* ------------------------------------------------- the unconstrained solver

\* The step sizes of prox_grad_robust_kron_pca: tau is a number, or an
\* np.ndarray of step sizes (a schedule).
ScalarTau(q) == [schedule |-> FALSE, value |-> q]
ScheduleTau(vals) == [schedule |-> TRUE, values |-> vals]

\* Lines 206-209: tau_vals, np.ones(num_iter)*tau for a number and the
\* array itself for a schedule.
TauValsOf(tau, num_iter) ==
    IF tau.schedule THEN tau.values ELSE [i \in 1 .. num_iter |-> tau.value]

\* Lines 200-209: R, the initial iterates and tau_vals.  np.ones raises
\* ValueError for a negative num_iter.
KronStart(c, args) ==
    LET Rc == pv_rearrange(c, args.sample_cov, args.ps, args.pt)
    IN  IF Rc.outcome # "ok"
        THEN [pc |-> "done", args |-> args, result |-> Rc]
        ELSE IF ~args.tau.schedule /\ args.num_iter < 0
        THEN [pc |-> "done", args |-> args, result |-> [outcome |-> "ValueError"]]
        ELSE [pc |-> IF args.num_iter > 0 THEN "loop" ELSE "after_loop",
              args |-> args,
              R |-> Rc.value,
              L_prev |-> Rc.value,
              S_prev |-> Zeros(Rc.value.rows, Rc.value.cols),
              M_prev |-> MAdd(Rc.value, Zeros(Rc.value.rows, Rc.value.cols)),
              tau_vals |-> TauValsOf(args.tau, args.num_iter),
              L |-> Unset,
              S |-> Unset,
              k |-> 0,
              result |-> NoResult]

\* Lines 214-216: L, S and M of one iteration with the step size tau, from
\* the values of the previous iteration.
FreshL(M_prev, S_prev, t_L) == soft_sv_threshold(MSub(M_prev, S_prev), t_L)

FreshS(M_prev, L_prev, t_S) == soft_entrywise_threshold(MSub(M_prev, L_prev), t_S)

FreshM(L, S, R, tau) == MSub(MAdd(L, S), MScale(tau, MSub(MAdd(L, S), R)))

\* Lines 214-218 with L and S computed.
KronAdvance(s, L, S, tau) ==
    [s EXCEPT
        !.L = [outcome |-> "ok", value |-> L],
        !.S = [outcome |-> "ok", value |-> S],
        !.M_prev = FreshM(L, S, s.R, tau),
        !.S_prev = S,
        !.L_prev = L,
        !.k = s.k + 1,
        !.pc = IF s.k + 1 >= s.args.num_iter THEN "after_loop" ELSE "loop"]

KronIterWith(s, tau) ==
    KronAdvance(s,
                FreshL(s.M_prev, s.S_prev, QMul(tau, s.args.lambda_L)),
                FreshS(s.M_prev, s.L_prev, QMul(tau, s.args.lambda_S)),
                tau)

\* Lines 211-218: one iteration of the loop, at k.  tau_vals[k] raises
\* IndexError past the end of a schedule.
KronIterBody(s) ==
    IF s.k >= Len(s.tau_vals)
    THEN [s EXCEPT !.pc = "done", !.result = [outcome |-> "IndexError"]]
    ELSE KronIterWith(s, s.tau_vals[s.k + 1])

\* Lines 220-221.  With num_iter = 0 the loop never bound L, and line 220
\* raises UnboundLocalError.
KronFinish(c, s) ==
    [s EXCEPT
        !.pc = "done",
        !.result =
            IF s.L.outcome # "ok"
            THEN [outcome |-> "UnboundLocalError"]
            ELSE LET back == pv_rearrange_inv(c, MAdd(s.L.value, s.S.value),
                                              s.args.ps, s.args.pt)
                 IN  IF back.outcome # "ok" THEN back
                     ELSE [outcome |-> "ok", cov_est |-> back.value]]

\* --------------------------------------------------------- cross-validation

\* -np.inf; every other float of the drivers is a rational.
NegInf == <<-1, 0>>

\* np.log(2*np.pi) and np.log of a positive rational, to three decimals:
\* Log2Fixed(n) is log2(n) in units of 1/1024, by the integer part and ten
\* squarings of the mantissa (kept in units of 1/4096).
Ln2Pi == Q(1838, 1000)

RECURSIVE FloorLog2(_)
FloorLog2(n) == IF n < 2 THEN 0 ELSE 1 + FloorLog2(n \div 2)

RECURSIVE Pow2(_)
Pow2(k) == IF k = 0 THEN 1 ELSE 2 * Pow2(k - 1)

RECURSIVE FracBits(_, _)
FracBits(m, i) ==
    IF i = 0 THEN 0
    ELSE LET sq == (m * m) \div 4096
         IN  IF sq >= 8192
             THEN Pow2(i - 1) + FracBits(sq \div 2, i - 1)
             ELSE FracBits(sq, i - 1)

Log2Fixed(n) ==
    LET k == FloorLog2(n)
    IN  k * 1024 + FracBits((n * 4096) \div Pow2(k), 10)

LnInt(n) == Q((Log2Fixed(n) * 693) \div 1024, 1000)

\* np.log(|x|) of a nonzero rational x.
LnAbs(x) == QSub(LnInt(Abs(x[1])), LnInt(x[2]))

\* X[a:b] of an array of n rows, as the indices it keeps, in order.
RECURSIVE SliceIdx(_, _, _)
SliceIdx(n, a, b) ==
    IF a >= b \/ a >= n THEN <<>> ELSE <<a>> \o SliceIdx(n, a + 1, b)

SeqSet(q) == {q[i] : i \in DOMAIN q}

\* The rows of X at the indices idx (a sequence), as an array.
TakeRows(X, idx) ==
    Mat(Len(idx), X.cols,
        [p \in Idx(Len(idx) * X.cols) |-> At(X, idx[(p \div X.cols) + 1], p % X.cols)])

\* A variant that trains on the other blocks only, up to row
\* num_folds*fold_size.
TrainRowsNoRemainder(n, cv_iter, fold_size, num_folds) ==
    SliceIdx(n, 0, cv_iter * fold_size)
        \o SliceIdx(n, (cv_iter + 1) * fold_size, num_folds * fold_size)

\* Line 327: the rows of X_train for fold cv_iter, np.concatenate of
\* X[:cv_iter*fold_size] and X[(cv_iter+1)*fold_size:].
TrainRows(n, cv_iter, fold_size, num_folds) ==
    SliceIdx(n, 0, cv_iter * fold_size) \o SliceIdx(n, (cv_iter + 1) * fold_size, n)

\* Line 328: the rows of X_test.
TestRows(n, cv_iter, fold_size) ==
    SliceIdx(n, cv_iter * fold_size, (cv_iter + 1) * fold_size)

\* np.dot(X.T, X)/len(X) of an array with at least one row.
SecondMoment(X) ==
    Mat(X.cols, X.cols,
        [p \in Idx(X.cols * X.cols) |->
            QDiv(QSum([r \in Idx(X.rows) |->
                         QMul(At(X, r, p \div X.cols), At(X, r, p % X.cols))],
                      Idx(X.rows)),
                 QInt(X.rows))])

\* X - X.mean(axis=0).
Centered(X) ==
    LET mean == [c \in Idx(X.cols) |->
                   QDiv(QSum([r \in Idx(X.rows) |-> At(X, r, c)], Idx(X.rows)),
                        QInt(X.rows))]
    IN  Mat(X.rows, X.cols,
            [p \in Idx(Size(X)) |-> QSub(X.data[p], mean[p % X.cols])])

SumAbs(A) == QSum([p \in Idx(Size(A)) |-> QAbs(A.data[p])], Idx(Size(A)))

\* A variant without the test of line 338.
NeverDegenerate(cov) == FALSE

\* np.sum(np.abs(cov_reg_train)) < 1e-12.
\* num/den < 10^-12, written num*10^6 < ceil(den/10^6) to stay within the
\* integers of the model.
IsDegenerate(cov) ==
    LET total == SumAbs(cov)
    IN  total[1] * 1000000 < (total[2] + 999999) \div 1000000

\* The determinant, the inverse and the trace of a product, for the 1x1 and
\* 2x2 matrices the drivers are run on.
Det(A) ==
    IF A.rows = 1 THEN At(A, 0, 0)
    ELSE QSub(QMul(At(A, 0, 0), At(A, 1, 1)), QMul(At(A, 0, 1), At(A, 1, 0)))

Inverse(A) ==
    IF A.rows = 1 THEN Mat(1, 1, [p \in Idx(1) |-> QDiv(One, At(A, 0, 0))])
    ELSE Mat(2, 2, [p \in Idx(4) |->
                      QDiv(CASE p = 0 -> At(A, 1, 1)
                             [] p = 1 -> QNeg(At(A, 0, 1))
                             [] p = 2 -> QNeg(At(A, 1, 0))
                             [] p = 3 -> At(A, 0, 0),
                           Det(A))])

TraceOfProduct(A, B) ==
    QSum([p \in Idx(Size(A)) |->
            QMul(At(A, p \div A.cols, p % A.cols), At(B, p % A.cols, p \div A.cols))],
         Idx(Size(A)))

\* Line 348: -0.5*num_samples*(d*log(2 pi) + log|det| + trace(inv . cov_test)).
LogLikelihood(num_samples, d, cov_reg_train, cov_test) ==
    QMul(Q(-num_samples, 2),
         QAdd(QMul(QInt(d), Ln2Pi),
              QAdd(LnAbs(Det(cov_reg_train)),
                   TraceOfProduct(Inverse(cov_reg_train), cov_test))))

\* Lines 338-352: the score of a fold from the solver's result fit.
FoldScore(fit, cov_test, num_samples, d, base) ==
    IF fit.outcome # "ok"
    THEN [outcome |-> fit.outcome] @@ base
    ELSE IF IsDegenerate(fit.cov_est)
    THEN [outcome |-> "ok", log_likelihood |-> NegInf,
          rank |-> 0, sparsity |-> Zero] @@ base
    ELSE IF Det(fit.cov_est) = Zero
    THEN [outcome |-> "LinAlgError"] @@ [base EXCEPT !.inverted = TRUE]
    ELSE [outcome |-> "ok",
          log_likelihood |-> LogLikelihood(num_samples, d, fit.cov_est, cov_test),
          rank |-> fit.rank, sparsity |-> fit.sparsity]
         @@ [base EXCEPT !.inverted = TRUE]

SolverArgs(a, sample_cov, lambda_L, lambda_S) ==
    [sample_cov |-> sample_cov, ps |-> a.ps, pt |-> a.pt,
     lambda_L |-> lambda_L, lambda_S |-> lambda_S,
     tau |-> a.tau, tol |-> a.tol, max_iter |-> a.max_iter,
     stop_cond_interval |-> a.stop_cond_interval]

\* Lines 330-336 on the rows train and test: the covariances and the fit.
FoldFit(c, a, train, test, base) ==
    FoldScore(prox_grad_robust_toeplitz_kron_pca(c,
                  SolverArgs(a, SecondMoment(Centered(TakeRows(a.X_with_lags, train))),
                             a.lambda_L, a.lambda_S)),
              SecondMoment(TakeRows(a.X_with_lags, test)),
              Len(test), a.X_with_lags.cols, base)

\* Lines 327-352: the body of the fold loop, on the rows train and test.  The
\* result names the rows trained and tested on, and whether the inversion of
\* line 344 ran.  An X_train without rows has the mean nan, and the solver's
\* first scipy.linalg.svd (check_finite) raises ValueError on the nan
\* covariance.
FoldOn(c, a, train, test) ==
    IF Len(train) = 0
    THEN [outcome |-> "ValueError", train_rows |-> SeqSet(train),
          test_rows |-> SeqSet(test), inverted |-> FALSE]
    ELSE FoldFit(c, a, train, test,
                 [train_rows |-> SeqSet(train), test_rows |-> SeqSet(test),
                  inverted |-> FALSE])

CVFold(c, a, fold_size, cv_iter) ==
    FoldOn(c, a,
           TrainRows(a.X_with_lags.rows, cv_iter, fold_size, a.num_folds),
           TestRows(a.X_with_lags.rows, cv_iter, fold_size))

\* Lines 319-323: fold_size and the result arrays.  len(X)/num_folds raises
\* ZeroDivisionError for num_folds = 0, and np.zeros(num_folds) ValueError
\* for a negative num_folds.
CVStart(a) ==
    IF a.num_folds = 0
    THEN [pc |-> "done", args |-> a, result |-> [outcome |-> "ZeroDivisionError"]]
    ELSE IF a.num_folds < 0
    THEN [pc |-> "done", args |-> a, result |-> [outcome |-> "ValueError"]]
    ELSE [pc |-> "loop", args |-> a,
          fold_size |-> a.X_with_lags.rows \div a.num_folds,
          cv_iter |-> 0,
          log_likelihood_vals |-> [f \in Idx(a.num_folds) |-> Zero],
          rank_vals |-> [f \in Idx(a.num_folds) |-> 0],
          sparsity_vals |-> [f \in Idx(a.num_folds) |-> Zero],
          folds |-> <<>>,
          result |-> NoResult]

\* Lines 339-341, 350-354: the fold's result f goes into the arrays, which
\* are returned after the last fold.  An exception of the body ends the call.
CVRecord(v, f, last) ==
    IF f.outcome # "ok"
    THEN [v EXCEPT !.pc = "done",
                   !.folds = Append(v.folds, f),
                   !.result = [outcome |-> f.outcome]]
    ELSE [v EXCEPT
            !.folds = Append(v.folds, f),
            !.log_likelihood_vals[v.cv_iter] = f.log_likelihood,
            !.rank_vals[v.cv_iter] = f.rank,
            !.sparsity_vals[v.cv_iter] = f.sparsity,
            !.cv_iter = v.cv_iter + 1,
            !.pc = IF last THEN "done" ELSE "loop",
            !.result = IF last
                       THEN [outcome |-> "ok",
                             log_likelihood_vals |->
                                 [v.log_likelihood_vals EXCEPT ![v.cv_iter] = f.log_likelihood],
                             rank_vals |-> [v.rank_vals EXCEPT ![v.cv_iter] = f.rank],
                             sparsity_vals |->
                                 [v.sparsity_vals EXCEPT ![v.cv_iter] = f.sparsity]]
                       ELSE v.result]

\* One pass of the loop of line 325.
CVStep(c, v) ==
    CVRecord(v, CVFold(c, v.args, v.fold_size, v.cv_iter),
             v.cv_iter + 1 >= v.args.num_folds)

RECURSIVE CVRun(_, _)
CVRun(c, v) == IF v.pc = "loop" THEN CVRun(c, CVStep(c, v)) ELSE v

\* cross_validate_toeplitz_fit(...): what the call returns or raises.
cross_validate_toeplitz_fit(c, a) == CVRun(c, CVStart(a)).result

\* -------------------------------------------------------------- grid search

ExtLess(x, y) ==
    IF y = NegInf THEN FALSE
    ELSE IF x = NegInf THEN TRUE
    ELSE QLess(x, y)

\* np.mean over the folds of one cell: -inf as soon as one fold is -inf.
MeanOverFolds(vals, num_folds) ==
    IF \E f \in Idx(num_folds) : vals[f] = NegInf
    THEN NegInf
    ELSE QDiv(QSum(vals, Idx(num_folds)), QInt(num_folds))

\* a.argmax() of a 1-D array of length n: the first index of the maximum.
ArgmaxFirst(v, n) ==
    CHOOSE i \in Idx(n) :
        /\ \A j \in Idx(n) : ~ExtLess(v[i], v[j])
        /\ \A j \in Idx(i) : ExtLess(v[j], v[i])

\* Lines 380-382: the pair at the first maximum, in row-major order, of the
\* fold-averaged log-likelihood table.
SelectedPair(g) ==
    LET nS == Len(g.args.lambda_S_vals)
        nL == Len(g.args.lambda_L_vals)
        mean_ll_vals == [p \in Idx(nL * nS) |->
                            MeanOverFolds(g.log_likelihood_vals[p], g.args.num_folds)]
        max_idx == ArgmaxFirst(mean_ll_vals, nL * nS)
    IN  <<g.args.lambda_L_vals[(max_idx \div nS) + 1],
          g.args.lambda_S_vals[(max_idx % nS) + 1]>>

\* The pair the refit of line 385 is given: lambda_L, lambda_S, the
\* variables of the loops of lines 366-369.
RefitPair(g) == <<g.lambda_L, g.lambda_S>>

CVArgs(a, lambda_L, lambda_S) ==
    [X_with_lags |-> a.X_with_lags, ps |-> a.ps, pt |-> a.pt,
     lambda_L |-> lambda_L, lambda_S |-> lambda_S, num_folds |-> a.num_folds,
     tau |-> a.tau, tol |-> a.tol, max_iter |-> a.max_iter,
     stop_cond_interval |-> a.stop_cond_interval]

\* Lines 360-364: the tables, indexed row-major by (lambda_L_idx,
\* lambda_S_idx).  np.zeros raises ValueError for a negative num_folds.
GridStart(a) ==
    IF a.num_folds < 0
    THEN [pc |-> "done", args |-> a, result |-> [outcome |-> "ValueError"]]
    ELSE LET cells == Idx(Len(a.lambda_L_vals) * Len(a.lambda_S_vals))
         IN  [pc |-> "loop", args |-> a,
              lambda_L_idx |-> 0, lambda_S_idx |-> 0,
              lambda_L |-> Unset, lambda_S |-> Unset,
              log_likelihood_vals |-> [p \in cells |-> [f \in Idx(a.num_folds) |-> Zero]],
              rank_vals |-> [p \in cells |-> [f \in Idx(a.num_folds) |-> 0]],
              sparsity_vals |-> [p \in cells |-> [f \in Idx(a.num_folds) |-> Zero]],
              result |-> NoResult]

\* Lines 376-378: the result r of the cell's cross-validation goes into
\* the tables at p, and the loops step.  An exception ends the call.
GridRecord(g, lambda_L, lambda_S, r, p, nS, last) ==
    IF r.outcome # "ok"
    THEN [g EXCEPT !.pc = "done", !.lambda_L = lambda_L, !.lambda_S = lambda_S,
                   !.result = [outcome |-> r.outcome]]
    ELSE [g EXCEPT
            !.lambda_L = lambda_L,
            !.lambda_S = lambda_S,
            !.log_likelihood_vals[p] = r.log_likelihood_vals,
            !.rank_vals[p] = r.rank_vals,
            !.sparsity_vals[p] = r.sparsity_vals,
            !.lambda_L_idx = (p + 1) \div nS,
            !.lambda_S_idx = (p + 1) % nS,
            !.pc = IF last THEN "after_loop" ELSE "loop"]

GridCellAt(c, g, lambda_L, lambda_S, p, nS, cells) ==
    GridRecord(g, lambda_L, lambda_S,
               cross_validate_toeplitz_fit(c, CVArgs(g.args, lambda_L, lambda_S)),
               p, nS, p + 1 >= cells)

\* Lines 369-378: one cell of the grid, and the step of the two loops.
GridStep(c, g) ==
    GridCellAt(c, g,
               g.args.lambda_L_vals[g.lambda_L_idx + 1],
               g.args.lambda_S_vals[g.lambda_S_idx + 1],
               g.lambda_L_idx * Len(g.args.lambda_S_vals) + g.lambda_S_idx,
               Len(g.args.lambda_S_vals),
               Len(g.args.lambda_L_vals) * Len(g.args.lambda_S_vals))

\* Lines 385-387: what regularize_cov returns, from the refit's result fit.
GridResult(g, opt, fit) ==
    [g EXCEPT
        !.pc = "done",
        !.result =
            IF fit.outcome # "ok"
            THEN [outcome |-> fit.outcome]
            ELSE [outcome |-> "ok",
                  lambda_L_opt |-> opt[1], lambda_S_opt |-> opt[2],
                  final_cov_reg |-> fit.cov_est,
                  log_likelihood_vals |-> g.log_likelihood_vals,
                  rank_vals |-> g.rank_vals,
                  sparsity_vals |-> g.sparsity_vals]]

\* The refit of line 385 with the pair given.
Refit(c, a, pair) ==
    prox_grad_robust_toeplitz_kron_pca(c,
        SolverArgs(a, SecondMoment(Centered(a.X_with_lags)), pair[1], pair[2]))

\* Lines 380-387: the selection, the refit on np.cov(X.T, bias=True) and
\* the return.
GridFinish(c, g) ==
    GridResult(g, SelectedPair(g), Refit(c, g.args, RefitPair(g)))

\* ---------------------------------------------------------------- callers

\* The matrices the layout transform is called with: C[r, c] = a*r + c, of
\* side n (a = n numbers the entries 0 .. n^2-1, a = 0 repeats the rows).
InputMat(n, a) ==
    Mat(n, n, [p \in Idx(n * n) |-> a * (p \div n) + (p % n)])

\* The (ps, pt) pairs the callers use.
Keys == {key \in (1 .. MaxDim) \X (1 .. MaxDim) : key[1] * key[2] <= MaxDim}

\* A caller may use key when the run's budget of distinct keys allows it.
KeyAllowed(key) ==
    key \in DOMAIN cache \/ Cardinality(DOMAIN cache) < MaxKeys

InitLayout ==
    /\ cache = <<>>
    /\ nComputed = <<>>
    /\ layout = [C |-> InputMat(1, 0), ps |-> 1, pt |-> 1,
                 R |-> NoResult, back |-> NoResult]
    /\ proj = [pt |-> 0, P |-> NoResult]
    /\ solver = [pc |-> "idle"]
    /\ cv = [pc |-> "idle"]
    /\ grid = [pc |-> "idle"]
    /\ kron = [pc |-> "idle"]

\* pv_permutation(ps, pt) called directly.
CallPvPermutation ==
    \E key \in Keys :
        /\ KeyAllowed(key)
        /\ cache' = CacheAfter(cache, key[1], key[2])
        /\ nComputed' = CountAfter(cache, nComputed, key[1], key[2])
        /\ UNCHANGED <<layout, proj, solver, cv, grid, kron>>

\* pv_rearrange(C, ps, pt) on a fresh input, of the side ps*pt the
\* documentation asks for, or one less, or one more.
CallPvRearrange ==
    \E key \in Keys, d \in {-1, 0, 1}, a \in 0 .. MaxCoef :
        LET ps == key[1]
            pt == key[2]
            n == ps * pt + d
            C == InputMat(n, a * n)
        IN  /\ KeyAllowed(key)
            /\ n >= 1
            /\ cache' = CacheAfter(cache, ps, pt)
            /\ nComputed' = CountAfter(cache, nComputed, ps, pt)
            /\ layout' = [C |-> C, ps |-> ps, pt |-> pt,
                          R |-> pv_rearrange(cache', C, ps, pt),
                          back |-> NoResult]
            /\ UNCHANGED <<proj, solver, cv, grid, kron>>

\* pv_rearrange_inv applied to what pv_rearrange returned.
CallPvRearrangeInv ==
    /\ layout.R.outcome = "ok"
    /\ layout.back.outcome = "none"
    /\ cache' = CacheAfter(cache, layout.ps, layout.pt)
    /\ nComputed' = CountAfter(cache, nComputed, layout.ps, layout.pt)
    /\ layout' = [layout EXCEPT
                    !.back = pv_rearrange_inv(cache', layout.R.value,
                                              layout.ps, layout.pt)]
    /\ UNCHANGED <<proj, solver, cv, grid, kron>>

NextLayout ==
    \/ CallPvPermutation
    \/ CallPvRearrange
    \/ CallPvRearrangeInv

SpecLayout == InitLayout /\ [][NextLayout]_vars

\* ----------------------------------------------------- the solver's caller

\* The covariance matrices the solver is called with: symmetric, dg on the
\* diagonal, of off it, and sp more at C[0, 0].
SymMat(n, dg, of, sp) ==
    Mat(n, n, [p \in Idx(n * n) |->
                 QInt((IF p \div n = p % n THEN dg ELSE of)
                      + (IF p = 0 THEN sp ELSE 0))])

SolverKeys ==
    {key \in (1 .. MaxSolverDim) \X (0 .. MaxSolverDim) :
        key[1] * key[2] <= MaxSolverDim}

TauVals == {Q(1, 2), One}
TolVals == {Zero, One}

InitSolver ==
    /\ cache = <<>>
    /\ nComputed = <<>>
    /\ layout = [C |-> InputMat(1, 0), ps |-> 1, pt |-> 1,
                 R |-> NoResult, back |-> NoResult]
    /\ proj = [pt |-> 0, P |-> NoResult]
    /\ solver = [pc |-> "idle"]
    /\ cv = [pc |-> "idle"]
    /\ grid = [pc |-> "idle"]
    /\ kron = [pc |-> "idle"]

\* prox_grad_robust_toeplitz_kron_pca is called: lines 283-291.
SolverCall ==
    \E key \in SolverKeys, d \in {-1, 0, 1},
       dg \in 0 .. MaxEntry, of \in 0 .. MaxEntry, sp \in 0 .. 1,
       lambda_L \in 0 .. MaxLambda, lambda_S \in 0 .. MaxLambda,
       tau \in TauVals, tol \in TolVals,
       max_iter \in 0 .. MaxIter, stop_cond_interval \in 1 .. MaxInterval :
        LET ps == key[1]
            pt == key[2]
            n == ps * pt + d
            args == [sample_cov |-> SymMat(n, dg, of, sp), ps |-> ps, pt |-> pt,
                     lambda_L |-> QInt(lambda_L), lambda_S |-> QInt(lambda_S),
                     tau |-> tau, tol |-> tol, max_iter |-> max_iter,
                     stop_cond_interval |-> stop_cond_interval]
            Pc == build_P_call(pt)
            c2 == IF Pc.outcome = "ok" THEN CacheAfter(cache, ps, pt) ELSE cache
            s == SolverStart(c2, args)
        IN  /\ solver.pc = "idle"
            /\ n >= 1
            /\ s.pc # "done" => SvdExact(s.P, s.R_tilde, args.lambda_L)
            /\ proj' = [pt |-> pt, P |-> Pc]
            /\ cache' = c2
            /\ nComputed' = IF Pc.outcome = "ok"
                            THEN CountAfter(cache, nComputed, ps, pt)
                            ELSE nComputed
            /\ solver' = s
            /\ UNCHANGED <<layout, cv, grid, kron>>

\* One iteration of the loop: lines 293-309.
SolverIter ==
    /\ solver.pc = "loop"
    /\ solver' = IterBody(cache, solver)
    /\ UNCHANGED <<cache, nComputed, layout, proj, cv, grid, kron>>

\* The loop is over: lines 311-314.
SolverReturn ==
    /\ solver.pc = "after_loop"
    /\ solver' = SolverFinish(solver)
    /\ UNCHANGED <<cache, nComputed, layout, proj, cv, grid, kron>>

NextSolver ==
    \/ SolverCall
    \/ SolverIter
    \/ SolverReturn

SpecSolver == InitSolver /\ [][NextSolver]_vars

\* ------------------------------------------------- the solver's loop, fair

LoopKeys ==
    {key \in (1 .. MaxSolverDim) \X (1 .. MaxSolverDim) :
        key[1] * key[2] <= MaxSolverDim}

LoopTolVals == {Zero, Q(1, 4), One}

\* prox_grad_robust_toeplitz_kron_pca is called on a matrix of side ps*pt,
\* with max_iter <= MaxLoopIter and stop_cond_interval <= MaxLoopInterval:
\* lines 283-291.
LoopCall ==
    \E key \in LoopKeys, dg \in 0 .. MaxEntry, of \in 0 .. MaxEntry,
       lambda_L \in 0 .. MaxLambda, lambda_S \in 0 .. MaxLambda,
       tau \in TauVals, tol \in LoopTolVals,
       max_iter \in 0 .. MaxLoopIter, stop_cond_interval \in 1 .. MaxLoopInterval :
        /\ solver.pc = "idle"
        /\ proj' = [pt |-> key[2], P |-> build_P_call(key[2])]
        /\ cache' = CacheAfter(cache, key[1], key[2])
        /\ nComputed' = CountAfter(cache, nComputed, key[1], key[2])
        /\ solver' = SolverStart(cache',
                         [sample_cov |-> SymMat(key[1] * key[2], dg, of, 0),
                          ps |-> key[1], pt |-> key[2],
                          lambda_L |-> QInt(lambda_L), lambda_S |-> QInt(lambda_S),
                          tau |-> tau, tol |-> tol, max_iter |-> max_iter,
                          stop_cond_interval |-> stop_cond_interval])
        /\ SvdExact(solver'.P, solver'.R_tilde, QInt(lambda_L))
        /\ UNCHANGED <<layout, cv, grid, kron>>

NextLoop ==
    \/ LoopCall
    \/ SolverIter
    \/ SolverReturn

\* A call that has started runs on: the interpreter executes the next
\* iteration of the for loop, and the statements after it.  This is weak
\* fairness of SolverIter and of SolverReturn, written out: SolverIter is
\* enabled exactly when solver.pc = "loop" and SolverReturn exactly when
\* solver.pc = "after_loop", and each changes solver.
SpecLoop ==
    /\ InitSolver
    /\ [][NextLoop]_vars
    /\ ([]<>(solver.pc # "loop") \/ []<><<SolverIter>>_vars)
    /\ ([]<>(solver.pc # "after_loop") \/ []<><<SolverReturn>>_vars)

\* ------------------------------------ the solver on off-diagonal inputs

\* The matrices of side n with x at C[r, c], and at C[c, r] too when sym,
\* and 0 elsewhere.
OneEntry(n, r, c, x, sym) ==
    Mat(n, n, [p \in Idx(n * n) |->
                 IF p = r * n + c \/ (sym /\ p = c * n + r) THEN QInt(x) ELSE Zero])

AliasKeys ==
    {key \in (1 .. MaxAliasDim) \X (1 .. MaxAliasDim) : key[1] * key[2] <= MaxAliasDim}

\* prox_grad_robust_toeplitz_kron_pca is called on such a matrix, of side
\* ps*pt, with tol = 0 and stop_cond_interval = 1: lines 283-291.
AliasCall ==
    \E key \in AliasKeys, x \in 1 .. MaxAliasEntry, sym \in BOOLEAN,
       lambda_L \in 0 .. MaxLambda, lambda_S \in 0 .. MaxLambda,
       tau \in TauVals, max_iter \in 1 .. MaxIter :
        \E r, c \in Idx(key[1] * key[2]) :
            /\ solver.pc = "idle"
            /\ proj' = [pt |-> key[2], P |-> build_P_call(key[2])]
            /\ cache' = CacheAfter(cache, key[1], key[2])
            /\ nComputed' = CountAfter(cache, nComputed, key[1], key[2])
            /\ solver' = SolverStart(cache',
                             [sample_cov |-> OneEntry(key[1] * key[2], r, c, x, sym),
                              ps |-> key[1], pt |-> key[2],
                              lambda_L |-> QInt(lambda_L), lambda_S |-> QInt(lambda_S),
                              tau |-> tau, tol |-> Zero, max_iter |-> max_iter,
                              stop_cond_interval |-> 1])
            /\ lambda_L = 0 \/ SvdSpread(solver'.P, solver'.R_tilde)
            /\ UNCHANGED <<layout, cv, grid, kron>>

NextAlias ==
    \/ AliasCall
    \/ SolverIter
    \/ SolverReturn

SpecAlias == InitSolver /\ [][NextAlias]_vars

\* ------------------------------------------ the unconstrained solver's caller

\* The matrices prox_grad_robust_kron_pca is called with: dg on the diagonal,
\* of off it, and up more at C[0, n-1].
KronInput(n, dg, of, up) ==
    Mat(n, n, [p \in Idx(n * n) |->
                 QInt((IF p \div n = p % n THEN dg ELSE of)
                      + (IF p = n - 1 THEN up ELSE 0))])

KronKeys ==
    {key \in (1 .. MaxKronDim) \X (1 .. MaxKronDim) : key[1] * key[2] <= MaxKronDim}

\* The step sizes a caller passes: a number, or a schedule of num_iter
\* entries or of one entry less.
RECURSIVE Schedules(_)
Schedules(len) ==
    IF len <= 0 THEN {<<>>}
    ELSE {Append(q, t) : q \in Schedules(len - 1), t \in TauVals}

StepSizes(num_iter) ==
    {ScalarTau(t) : t \in TauVals}
        \cup {ScheduleTau(q) : q \in Schedules(num_iter) \cup Schedules(num_iter - 1)}

\* The SVD steps of a run are rational: lambda_L = 0, or R has at most one
\* nonzero entry (every iterate then has its nonzero entries among R's).
KronSvdExact(R, lambda_L) ==
    \/ lambda_L = Zero
    \/ Cardinality(NonzeroAt(R)) <= 1

InitKron ==
    /\ cache = <<>>
    /\ nComputed = <<>>
    /\ layout = [C |-> InputMat(1, 0), ps |-> 1, pt |-> 1,
                 R |-> NoResult, back |-> NoResult]
    /\ proj = [pt |-> 0, P |-> NoResult]
    /\ solver = [pc |-> "idle"]
    /\ cv = [pc |-> "idle"]
    /\ grid = [pc |-> "idle"]
    /\ kron = [pc |-> "idle"]

\* prox_grad_robust_kron_pca is called: lines 200-209.
KronCall ==
    \E key \in KronKeys, dg \in 0 .. MaxEntry, of \in 0 .. MaxEntry, up \in 0 .. 1,
       lambda_L \in 0 .. MaxLambda, lambda_S \in 0 .. MaxLambda,
       num_iter \in 0 .. MaxKronIter :
        \E tau \in StepSizes(num_iter) :
            /\ kron.pc = "idle"
            /\ cache' = CacheAfter(cache, key[1], key[2])
            /\ nComputed' = CountAfter(cache, nComputed, key[1], key[2])
            /\ kron' = KronStart(cache',
                                 [sample_cov |-> KronInput(key[1] * key[2], dg, of, up),
                                  ps |-> key[1], pt |-> key[2],
                                  lambda_L |-> QInt(lambda_L),
                                  lambda_S |-> QInt(lambda_S),
                                  num_iter |-> num_iter, tau |-> tau])
            /\ KronSvdExact(kron'.R, QInt(lambda_L))
            /\ UNCHANGED <<layout, proj, solver, cv, grid>>

\* One iteration of the loop: lines 211-218.
KronIter ==
    /\ kron.pc = "loop"
    /\ kron' = KronIterBody(kron)
    /\ UNCHANGED <<cache, nComputed, layout, proj, solver, cv, grid>>

\* The loop is over: lines 220-221.
KronReturn ==
    /\ kron.pc = "after_loop"
    /\ kron' = KronFinish(cache, kron)
    /\ UNCHANGED <<cache, nComputed, layout, proj, solver, cv, grid>>

NextKron ==
    \/ KronCall
    \/ KronIter
    \/ KronReturn

SpecKron == InitKron /\ [][NextKron]_vars

\* -------------------------------------------------- the projector's caller

\* The pt^2-by-ps^2 matrices P is applied to: R[m, c] = a*m + c + e.
ProjInput(pt, ps, a, e) ==
    Mat(pt * pt, ps, [p \in Idx(pt * pt * ps) |-> QInt(a * (p \div ps) + (p % ps) + e)])

InitProjector ==
    /\ cache = <<>>
    /\ nComputed = <<>>
    /\ layout = [C |-> InputMat(1, 0), ps |-> 1, pt |-> 1,
                 R |-> NoResult, back |-> NoResult]
    /\ proj = [pt |-> 0, P |-> NoResult]
    /\ solver = [pc |-> "idle"]
    /\ cv = [pc |-> "idle"]
    /\ grid = [pc |-> "idle"]
    /\ kron = [pc |-> "idle"]

\* build_P(pt) called directly.
CallBuildP ==
    \E pt \in 0 .. MaxProjPt :
        /\ proj' = [pt |-> pt, P |-> build_P_call(pt)]
        /\ UNCHANGED <<cache, nComputed, layout, solver, cv, grid, kron>>

\* np.dot(P, R) and np.dot(P.T, np.dot(P, R)) of a matrix R: lines 285, 304.
ApplyP ==
    \E cols \in 1 .. MaxProjPs, a \in 0 .. 3, e \in 0 .. 3 :
        /\ proj.P.outcome = "ok"
        /\ LET R == ProjInput(proj.pt, cols, a, e)
               R_tilde == DotP(proj.P.value, R)
           IN  proj' = [pt |-> proj.pt, P |-> proj.P, R |-> R,
                        R_tilde |-> R_tilde,
                        back |-> DotPT(proj.P.value, R_tilde)]
        /\ UNCHANGED <<cache, nComputed, layout, solver, cv, grid, kron>>

NextProjector ==
    \/ CallBuildP
    \/ ApplyP

SpecProjector == InitProjector /\ [][NextProjector]_vars

\* ---------------------------------------------------- the drivers' callers

\* The observation tables the drivers are called with: n rows, one column.
DataSets(maxRows) ==
    UNION {{Mat(n, 1, [p \in Idx(n) |-> QInt(x[p])]) : x \in [Idx(n) -> 0 .. MaxX]} :
           n \in 1 .. maxRows}

InitDrivers ==
    /\ cache = <<>>
    /\ nComputed = <<>>
    /\ layout = [C |-> InputMat(1, 0), ps |-> 1, pt |-> 1,
                 R |-> NoResult, back |-> NoResult]
    /\ proj = [pt |-> 0, P |-> NoResult]
    /\ solver = [pc |-> "idle"]
    /\ cv = [pc |-> "idle"]
    /\ grid = [pc |-> "idle"]
    /\ kron = [pc |-> "idle"]

\* cross_validate_toeplitz_fit is called, with at least one row per fold:
\* lines 319-323.
CVCall ==
    \E X \in DataSets(MaxRows), num_folds \in -1 .. MaxFolds,
       lambda_L \in 0 .. MaxLambda, lambda_S \in 0 .. MaxLambda,
       max_iter \in 1 .. MaxDriverIter :
        /\ cv.pc = "idle"
        /\ X.rows >= num_folds
        /\ cv' = CVStart([X_with_lags |-> X, ps |-> 1, pt |-> 1,
                          lambda_L |-> QInt(lambda_L), lambda_S |-> QInt(lambda_S),
                          num_folds |-> num_folds, tau |-> Q(1, 2), tol |-> Zero,
                          max_iter |-> max_iter, stop_cond_interval |-> 1])
        /\ UNCHANGED <<cache, nComputed, layout, proj, solver, grid, kron>>

\* One fold: lines 325-352, and the return of line 354 after the last.
CVFoldStep ==
    /\ cv.pc = "loop"
    /\ cache' = CacheAfter(cache, cv.args.ps, cv.args.pt)
    /\ nComputed' = CountAfter(cache, nComputed, cv.args.ps, cv.args.pt)
    /\ cv' = CVStep(cache', cv)
    /\ UNCHANGED <<layout, proj, solver, grid, kron>>

NextCV ==
    \/ CVCall
    \/ CVFoldStep

SpecCV == InitDrivers /\ [][NextCV]_vars

\* The grids of one axis: one value, or several different ones in any order.
RECURSIVE GridAxes(_)
GridAxes(len) ==
    IF len = 0 THEN {<<>>}
    ELSE {Append(q, QInt(x)) : q \in GridAxes(len - 1), x \in 0 .. MaxLambda}

Distinct(q) == \A i, j \in DOMAIN q : i # j => q[i] # q[j]

Axes == {q \in UNION {GridAxes(len) : len \in 1 .. MaxGrid} : Distinct(q)}

\* regularize_cov is called: lines 360-364.
GridCall ==
    \E X \in DataSets(MaxGridRows), num_folds \in 0 .. MaxFolds,
       lambda_L_vals \in Axes, lambda_S_vals \in Axes,
       max_iter \in 1 .. MaxDriverIter :
        /\ grid.pc = "idle"
        /\ X.rows >= num_folds
        /\ grid' = GridStart([X_with_lags |-> X, ps |-> 1, pt |-> 1,
                              lambda_L_vals |-> lambda_L_vals,
                              lambda_S_vals |-> lambda_S_vals,
                              num_folds |-> num_folds, tau |-> Q(1, 2), tol |-> Zero,
                              max_iter |-> max_iter, stop_cond_interval |-> 1])
        /\ UNCHANGED <<cache, nComputed, layout, proj, solver, cv, kron>>

\* One cell of the grid: lines 369-378.
GridCell ==
    /\ grid.pc = "loop"
    /\ cache' = CacheAfter(cache, grid.args.ps, grid.args.pt)
    /\ nComputed' = CountAfter(cache, nComputed, grid.args.ps, grid.args.pt)
    /\ grid' = GridStep(cache', grid)
    /\ UNCHANGED <<layout, proj, solver, cv, kron>>

\* The loops are over: lines 380-387.
GridReturn ==
    /\ grid.pc = "after_loop"
    /\ grid' = GridFinish(cache, grid)
    /\ UNCHANGED <<cache, nComputed, layout, proj, solver, cv, kron>>

NextGrid ==
    \/ GridCall
    \/ GridCell
    \/ GridReturn

SpecGrid == InitDrivers /\ [][NextGrid]_vars

\* ------------------------------------------------------------------ claims

LayoutShapeOk == layout.C.rows = layout.ps * layout.pt

\* C1: pv_rearrange_inv(pv_rearrange(C, ps, pt), ps, pt) is C, entry for
\* entry, for every C of shape (ps*pt, ps*pt); and every cached perm holds
\* each index of 0 .. ps^2 pt^2 - 1 exactly once, with perm[perm_inv[i]] = i.
C1_RoundTrip ==
    /\ (layout.back.outcome = "ok" /\ LayoutShapeOk)
          => layout.back.value = layout.C
    /\ \A key \in DOMAIN cache :
          LET n == key[1] * key[1] * key[2] * key[2]
              perm == cache[key][1]
              perm_inv == cache[key][2]
          IN  /\ DOMAIN perm = Idx(n)
              /\ \A v \in Idx(n) : Cardinality({p \in Idx(n) : perm[p] = v}) = 1
              /\ \A i \in Idx(n) : perm[perm_inv[i]] = i

\* A 4x4 matrix with 16 different entries went through ps = pt = 2 both ways.
C1_Witness ==
    /\ layout.back.outcome = "ok"
    /\ LayoutShapeOk
    /\ layout.ps = 2 /\ layout.pt = 2
    /\ \A p \in Idx(16) : layout.C.data[p] = p

\* C2: entry (i*pt + j, b*ps + a) of pv_rearrange(C, ps, pt) is
\* C[i*ps + a, j*ps + b]: row i*pt + j is the column-major vectorization of
\* the ps x ps block (i, j) of C.
C2_BlockRows ==
    (layout.R.outcome = "ok" /\ LayoutShapeOk) =>
        /\ layout.R.value.rows = layout.pt * layout.pt
        /\ layout.R.value.cols = layout.ps * layout.ps
        /\ \A i, j \in Idx(layout.pt), a, b \in Idx(layout.ps) :
              At(layout.R.value, i * layout.pt + j, b * layout.ps + a)
                 = At(layout.C, i * layout.ps + a, j * layout.ps + b)

\* Row 1 of the rearranged 4x4 matrix is block (0, 1); its entry 1 is C[1, 2].
C2_Witness ==
    /\ layout.R.outcome = "ok"
    /\ LayoutShapeOk
    /\ layout.ps = 2 /\ layout.pt = 2
    /\ \A p \in Idx(16) : layout.C.data[p] = p
    /\ At(layout.R.value, 1, 1) = 6

SolverShapeOk ==
    solver.args.sample_cov.rows = solver.args.ps * solver.args.pt

SolverReturned ==
    solver.pc = "done" /\ solver.result.outcome = "ok" /\ SolverShapeOk

\* C4: the sparsity returned is the number of nonzero entries of the final
\* S_tilde over the number of its entries, a fraction in [0, 1].
C4_SparsityIsFraction ==
    SolverReturned =>
        /\ solver.result.sparsity = NonzeroFraction(solver.arr.A)
        /\ ~QLess(solver.result.sparsity, Zero)
        /\ ~QLess(One, solver.result.sparsity)

\* C5: for max_iter >= 1, the covariance estimate returned is the
\* reconstruction of the last iteration executed, the iterate the returned
\* rank and sparsity are computed from.
C5_ReturnsFinalEstimate ==
    (SolverReturned /\ solver.args.max_iter >= 1) =>
        solver.result.cov_est
            = Reconstruct(cache, solver.P, solver.L_tilde.value, solver.arr.A,
                          solver.args.ps, solver.args.pt).value

InvalidConfig(args) ==
    \/ args.ps <= 0
    \/ args.pt <= 0
    \/ args.max_iter < args.stop_cond_interval

\* C8: a call with ps <= 0, pt <= 0 or max_iter < stop_cond_interval ends in
\* an error before any rearrangement, projection or iteration, and returns
\* no result.
C8_InvalidConfigRejected ==
    (solver.pc # "idle" /\ InvalidConfig(solver.args)) =>
        /\ solver.pc = "done"
        /\ solver.result.outcome # "ok"
        /\ solver.result.outcome # "UnboundLocalError"

\* C9: for an input whose side is not ps*pt, pv_rearrange and the solver end
\* in a dimension error and return nothing built from the input's entries.
C9_ShapeMismatchFails ==
    /\ (layout.R.outcome # "none" /\ ~LayoutShapeOk) => layout.R.outcome # "ok"
    /\ (solver.pc # "idle"
        /\ solver.args.pt >= 1
        /\ solver.args.sample_cov.rows # solver.args.ps * solver.args.pt)
          => (solver.pc = "done" /\ solver.result.outcome # "ok")

\* C10: build_P(pt) has shape (2*pt-1, pt^2); row offset+pt-1 is nonzero
\* exactly at the indices i*pt + j with i - j = offset, pt - |offset| of them,
\* each 1/sqrt(pt - |offset|), so that the squares of the row sum to 1.
C10_ProjectorRows ==
    proj.P.outcome = "ok" =>
        LET P == proj.P.value
            pt == proj.pt
        IN  /\ P.rows = 2 * pt - 1
            /\ P.cols = pt * pt
            /\ \A offset \in (1 - pt) .. (pt - 1) :
                  LET r == offset + pt - 1
                      nz == {m \in Idx(pt * pt) : At(P, r, m) # 0}
                  IN  /\ nz = {m \in Idx(pt * pt) :
                                  \E i, j \in Idx(pt) :
                                      m = i * pt + j /\ i - j = offset}
                      /\ Cardinality(nz) = pt - Abs(offset)
                      /\ \A m \in nz : At(P, r, m) = pt - Abs(offset)
                      /\ QSum([m \in nz |-> Q(1, At(P, r, m))], nz) = One

\* build_P(3): row 1, of offset -1, holds 1/sqrt(2) at the indices 1 and 5.
C10_Witness ==
    /\ proj.P.outcome = "ok"
    /\ proj.pt = 3
    /\ At(proj.P.value, 1, 1) = 2
    /\ At(proj.P.value, 1, 5) = 2
    /\ At(proj.P.value, 1, 3) = 0

CVRunning == cv.pc # "idle" /\ cv.args.num_folds >= 1

\* The rows of block f of size s among n rows.
Block(n, s, f) == {r \in Idx(n) : f * s <= r /\ r < (f + 1) * s}

\* C6, as the code has it: fold f tests on the rows [f*s, (f+1)*s) with
\* s = floor(n/K), the K test blocks are pairwise disjoint and of equal size,
\* the n - K*s remainder rows are in no fold's test set, and each fold trains
\* on the complement of its test block, remainder rows included.
C6_FoldsTrainOnComplement ==
    CVRunning =>
        LET n == cv.args.X_with_lags.rows
            s == n \div cv.args.num_folds
        IN  /\ cv.fold_size = s
            /\ \A i \in DOMAIN cv.folds :
                  /\ cv.folds[i].test_rows = Block(n, s, i - 1)
                  /\ Cardinality(cv.folds[i].test_rows) = s
                  /\ cv.folds[i].train_rows = Idx(n) \ Block(n, s, i - 1)
                  /\ \A r \in Idx(n) :
                        r >= cv.args.num_folds * s => r \notin cv.folds[i].test_rows
            /\ \A i, j \in DOMAIN cv.folds :
                  i # j => cv.folds[i].test_rows \cap cv.folds[j].test_rows = {}

\* Four rows in three folds went through: row 3 is the remainder.
C6_Witness ==
    /\ CVRunning
    /\ cv.pc = "done"
    /\ cv.result.outcome = "ok"
    /\ cv.args.X_with_lags.rows = 4
    /\ cv.args.num_folds = 3
    /\ 3 \in cv.folds[2].train_rows

\* C6, as stated: the remainder rows are in no fold's test set and in no
\* fold's training set, each fold training exactly on the other K-1 blocks.
C6_RemainderDropped ==
    CVRunning =>
        LET n == cv.args.X_with_lags.rows
            K == cv.args.num_folds
            s == n \div K
        IN  \A i \in DOMAIN cv.folds :
               /\ cv.folds[i].test_rows = Block(n, s, i - 1)
               /\ cv.folds[i].train_rows
                     = UNION {Block(n, s, f) : f \in Idx(K) \ {i - 1}}
               /\ \A r \in Idx(n) :
                     r >= K * s => /\ r \notin cv.folds[i].test_rows
                                   /\ r \notin cv.folds[i].train_rows

\* x < 1e-12 for a rational x >= 0.
BelowEps(x) == x[1] * 1000000 < (x[2] + 999999) \div 1000000

\* The solver's fit of fold i (from 1) of the call cv is in.
FitOfFold(i) ==
    prox_grad_robust_toeplitz_kron_pca(cache,
        SolverArgs(cv.args,
                   SecondMoment(Centered(TakeRows(cv.args.X_with_lags,
                       TrainRows(cv.args.X_with_lags.rows, i - 1, cv.fold_size,
                                 cv.args.num_folds)))),
                   cv.args.lambda_L, cv.args.lambda_S))

DegenerateFold(i) ==
    /\ cv.folds[i].train_rows # {}
    /\ FitOfFold(i).outcome = "ok"
    /\ BelowEps(SumAbs(FitOfFold(i).cov_est))

\* C7: a fold whose fitted covariance has sum of absolute values below
\* 1e-12 records log-likelihood -inf, rank 0 and sparsity 0 without an
\* inversion, and the loop goes on to the next fold; when every fold is
\* degenerate the call returns -inf, 0, 0 for every fold and does not raise.
C7_DegenerateFoldScored ==
    CVRunning =>
        /\ \A i \in DOMAIN cv.folds :
              DegenerateFold(i) =>
                  /\ cv.folds[i].outcome = "ok"
                  /\ ~cv.folds[i].inverted
                  /\ cv.log_likelihood_vals[i - 1] = NegInf
                  /\ cv.rank_vals[i - 1] = 0
                  /\ cv.sparsity_vals[i - 1] = Zero
                  /\ cv.cv_iter >= i
                  /\ (cv.pc = "done" /\ i < cv.args.num_folds) => Len(cv.folds) > i
        /\ (/\ Len(cv.folds) = cv.args.num_folds
            /\ \A i \in DOMAIN cv.folds : DegenerateFold(i))
              => /\ cv.pc = "done"
                 /\ cv.result.outcome = "ok"
                 /\ \A f \in Idx(cv.args.num_folds) :
                       /\ cv.result.log_likelihood_vals[f] = NegInf
                       /\ cv.result.rank_vals[f] = 0
                       /\ cv.result.sparsity_vals[f] = Zero

\* Two folds of a call were degenerate, and the call returned.
C7_Witness ==
    /\ CVRunning
    /\ cv.pc = "done"
    /\ cv.args.num_folds = 2
    /\ Len(cv.folds) = 2
    /\ DegenerateFold(1)
    /\ DegenerateFold(2)
    /\ cv.result.log_likelihood_vals[1] = NegInf

GridReturned == grid.pc = "done" /\ grid.result.outcome = "ok"

\* C3: the final covariance regularize_cov returns is the solver's fit of
\* the full-data sample covariance with the selected pair, the pair at the
\* first maximum in row-major order of the fold-averaged log-likelihood
\* table, wherever in the grid that maximum is.
C3_RefitsSelectedPair ==
    GridReturned =>
        /\ grid.result.lambda_L_opt = SelectedPair(grid)[1]
        /\ grid.result.lambda_S_opt = SelectedPair(grid)[2]
        /\ grid.result.final_cov_reg
              = Refit(cache, grid.args, SelectedPair(grid)).cov_est

\* The call kron is in has zero regularization, at least one iteration and
\* a step size for each.
ZeroRegularization ==
    /\ kron.pc # "idle"
    /\ kron.args.lambda_L = Zero
    /\ kron.args.lambda_S = Zero
    /\ kron.args.num_iter >= 1
    /\ kron.args.tau.schedule => Len(kron.args.tau.values) >= kron.args.num_iter

\* C11: with lambda_L = 0 and lambda_S = 0, for every input of shape
\* (ps*pt, ps*pt), every num_iter >= 1 and every step size, a number or a
\* schedule of num_iter entries, prox_grad_robust_kron_pca keeps L = R and
\* S = 0 at every iteration and returns the input matrix unchanged.
C11_ZeroRegularizationFixedPoint ==
    ZeroRegularization =>
        /\ kron.k >= 1 =>
              /\ kron.L.value = kron.R
              /\ kron.S.value = Zeros(kron.R.rows, kron.R.cols)
              /\ kron.M_prev = kron.R
        /\ kron.pc = "done" =>
              /\ kron.result.outcome = "ok"
              /\ kron.result.cov_est = kron.args.sample_cov

\* ps = 2, pt = 2, the 4x4 identity, one iteration, step size 1: the
\* identity came back.
C11_Witness ==
    /\ ZeroRegularization
    /\ kron.pc = "done"
    /\ kron.args.ps = 2 /\ kron.args.pt = 2
    /\ kron.args.sample_cov = KronInput(4, 1, 0, 0)
    /\ kron.args.num_iter = 1
    /\ kron.args.tau = ScalarTau(One)
    /\ kron.result.outcome = "ok"
    /\ kron.result.cov_est = KronInput(4, 1, 0, 0)

\* The solver's state after n iterations of the loop body from the start of
\* the call solver is in, and the estimate reconstructed at iteration k.
RECURSIVE StateAfter(_)
StateAfter(n) ==
    IF n = 0 THEN SolverStart(cache, solver.args)
    ELSE IterBody(cache, StateAfter(n - 1))

EstimateOf(s) ==
    Reconstruct(cache, s.P, s.L_tilde.value, s.arr.A, s.args.ps, s.args.pt).value

EstimateAt(k) == EstimateOf(StateAfter(k + 1))

\* The loop was left at iteration k, before the last iteration max_iter - 1.
StoppedEarlyAt(k) ==
    /\ solver.pc \in {"after_loop", "done"}
    /\ solver.k = k + 1
    /\ solver.k < solver.args.max_iter

LoopStopsOnlyOnConvergence ==
    solver.pc # "idle" =>
        /\ solver.k <= solver.args.max_iter
        /\ solver.pc = "loop" => solver.k < solver.args.max_iter
        /\ \A k \in 0 .. MaxLoopIter :
              StoppedEarlyAt(k) =>
                  /\ k > 0
                  /\ k % solver.args.stop_cond_interval = 0
                  /\ RmsLess(EstimateAt(k),
                             EstimateAt(k - solver.args.stop_cond_interval),
                             solver.args.tol)

\* C12: the loop of prox_grad_robust_toeplitz_kron_pca ends after at most
\* max_iter iterations, and it is left before max_iter only at an iteration
\* k > 0 that is a multiple of stop_cond_interval at which the RMS difference
\* between the estimate reconstructed at k and the one reconstructed at
\* k - stop_cond_interval is below tol.
C12_LoopTerminates ==
    /\ []LoopStopsOnlyOnConvergence
    /\ (solver.pc = "loop") ~> (solver.pc = "done")

\* A call with max_iter = 5 and stop_cond_interval = 2 left the loop at
\* iteration 2 and returned.
C12_Witness ==
    /\ solver.pc = "done"
    /\ solver.result.outcome = "ok"
    /\ solver.args.max_iter = 5
    /\ solver.args.stop_cond_interval = 2
    /\ StoppedEarlyAt(2)

\* The body of pv_permutation ran at most once for each key, and the keys
\* it ran for are the keys stored.
ComputedOnce ==
    /\ DOMAIN nComputed = DOMAIN cache
    /\ \A key \in DOMAIN nComputed : nComputed[key] = 1

\* A step keeps every entry stored, runs the body for no key stored, and
\* stores under a new key what the body computes, run once.
CacheStep ==
    /\ \A key \in DOMAIN cache :
          /\ key \in DOMAIN cache'
          /\ cache'[key] = cache[key]
          /\ nComputed'[key] = nComputed[key]
    /\ \A key \in DOMAIN cache' \ DOMAIN cache :
          /\ cache'[key] = pv_permutation_body(key[1], key[2])
          /\ nComputed'[key] = 1

\* C13: over any sequence of calls to pv_permutation, pv_rearrange and
\* pv_rearrange_inv the permutation is computed at most once per (ps, pt)
\* key: the first call with a key computes and stores the pair, a later call
\* with that key does not recompute, and an entry stored is never replaced
\* or removed.
C13_ComputedOncePerKey ==
    /\ []ComputedOnce
    /\ [][CacheStep]_vars

\* Two keys are stored, and the second call with the key of the last
\* pv_rearrange, made by pv_rearrange_inv, has returned.
C13_Witness ==
    /\ Cardinality(DOMAIN cache) = 2
    /\ layout.back.outcome = "ok"
    /\ <<layout.ps, layout.pt>> \in DOMAIN cache
    /\ nComputed[<<layout.ps, layout.pt>>] = 1
    /\ layout.ps * layout.pt > 1

\* One step of the recursion of prox_grad_robust_kron_pca, lines 214-216, on
\* the values f of the previous step.
FreshNext(f, R, tau, lambda_L, lambda_S) ==
    [L |-> FreshL(f.M, f.S, QMul(tau, lambda_L)),
     S |-> FreshS(f.M, f.L, QMul(tau, lambda_S)),
     M |-> FreshM(FreshL(f.M, f.S, QMul(tau, lambda_L)),
                  FreshS(f.M, f.L, QMul(tau, lambda_S)), R, tau)]

\* The values after n steps of that recursion applied to the R_tilde of the
\* call solver is in.  Rows are stored without their factor cj, so that the
\* per-row threshold tau*lambda_S*cj is the threshold tau*lambda_S on what
\* is stored.
RECURSIVE FreshRun(_)
FreshRun(n) ==
    IF n = 0
    THEN [L |-> solver.R_tilde,
          S |-> Zeros(solver.R_tilde.rows, solver.R_tilde.cols),
          M |-> solver.R_tilde]
    ELSE FreshNext(FreshRun(n - 1), solver.R_tilde, solver.args.tau,
                   solver.args.lambda_L, solver.args.lambda_S)

SameAsFresh(s, f) ==
    /\ s.L_tilde.value = f.L
    /\ s.arr.A = f.S
    /\ s.M_tilde_prev = f.M
    /\ s.L_tilde_prev = f.L
    /\ s.S_tilde_prev = "A"

\* C14: S_tilde is updated in place and S_tilde_prev is bound to the same
\* array from the second iteration on, and yet every iteration computes
\* L_tilde from M_tilde and S_tilde of the iteration before and every row of
\* S_tilde from M_tilde and L_tilde of the iteration before: after k
\* iterations the iterates are those of k steps of the fresh-value recursion
\* of prox_grad_robust_kron_pca on R_tilde with per-row thresholds.
C14_IteratesAreFresh ==
    (solver.pc # "idle" /\ solver.k >= 1) =>
        SameAsFresh(solver, FreshRun(solver.k))

\* ps = pt = 2: two iterations ran, S_tilde is nonzero in the rows 0 and 2,
\* and it changed in the last iteration.
C14_Witness ==
    /\ solver.pc = "done"
    /\ solver.args.ps = 2 /\ solver.args.pt = 2
    /\ solver.k >= 2
    /\ \E p, q \in NonzeroAt(solver.arr.A) :
          p \div solver.arr.A.cols = 0 /\ q \div solver.arr.A.cols = 2
    /\ FreshRun(solver.k).S # FreshRun(solver.k - 1).S
    /\ SameAsFresh(solver, FreshRun(solver.k))

====
